---- MODULE Spec2Model ----
(***************************************************************************)
(* TrustBridge contracts as a state machine, one action per contract entry *)
(* point: the oracle (contracts/oracle/src/contract.rs), the pull-mode     *)
(* oracle-aggregator (contracts/oracle-aggregator/src/contract.rs), the    *)
(* security guardian (contracts/security-guardian/src/lib.rs) and the      *)
(* trade store of mev-protection (contracts/mev-protection/src/            *)
(* contract.rs), on one ledger.  An entry point that ends in panic_with_error! or returns Err   *)
(* aborts the invocation; the Soroban host then discards every storage     *)
(* write and event of that invocation, so a failed call leaves the ledger  *)
(* storage as it was and only its error is seen.                           *)
(***************************************************************************)
EXTENDS Integers, Sequences, FiniteSets, TLC

\* ------------------------------------------------------------------ bounds

\* Ledger timestamps run over 0..MaxTime where aggregation is explored,
\* over 0..MaxTimeBeat where the heartbeat check is, and over 0..MaxTimeGov
\* where every entry point is.
MaxTime == 2
MaxTimeBeat == 3
MaxTimeGov == 1

\* Trade records carry block numbers 0..MaxBlock; a block keeps at most
\* MaxTradesPerBlock records and a trader's count stops at MaxCount.
MaxBlock == 2
MaxTradesPerBlock == 1
MaxCount == 2

\* ---------------------------------------------------------------- domains

Assets == {"XLM", "USDC"}
SourceIds == {"S1", "S2", "S3", "S4"}
Addresses == {"A", "B", "C"}

\* The external oracle contracts the oracle-aggregator polls.
Oracles == {"O1", "O2"}
Traders == {"T1", "T2"}
MevAssets == {"XLM"}
Blocks == 0 .. MaxBlock

\* OracleConfig
Config(dev, stale, minsrc, hb) ==
    [max_price_deviation_bps |-> dev, max_staleness_seconds |-> stale,
     min_sources_required |-> minsrc, heartbeat_interval |-> hb]

\* ------------------------------------------------------------------ types

\* Option::None
None == [none |-> TRUE]

Range(f) == {f[i] : i \in DOMAIN f}

\* -------------------------------------------------------- pure functions

\* Arithmetic on values beyond 31 bits is carried on two limbs of 16 bits:
\* [hi, lo] stands for hi * Limb + lo.
Limb == 2^16

\* x stands for x.hi * Limb + x.lo + x.r / b with 0 <= x.r < b; the result
\* stands for k times that.
ScaleBy(x, k, b) ==
    LET t == x.r * k
        lo == x.lo * k + (t \div b)
    IN [hi |-> x.hi * k + (lo \div Limb), lo |-> lo % Limb, r |-> t % b]

\* (diff * 10000) / old_price in i128, exact, for diff >= 0 and old_price > 0
\* (10000 = 2^4 * 5^4).
MulDiv10000(diff, old_price) ==
    LET q == diff \div old_price
        x0 == [hi |-> q \div Limb, lo |-> q % Limb, r |-> diff % old_price]
        x1 == ScaleBy(x0, 2, old_price)
        x2 == ScaleBy(x1, 2, old_price)
        x3 == ScaleBy(x2, 2, old_price)
        x4 == ScaleBy(x3, 2, old_price)
        x5 == ScaleBy(x4, 5, old_price)
        x6 == ScaleBy(x5, 5, old_price)
        x7 == ScaleBy(x6, 5, old_price)
        x8 == ScaleBy(x7, 5, old_price)
    IN [hi |-> x8.hi, lo |-> x8.lo]

\* `as u32` of a non-negative i128: the low 32 bits.
AsU32(x) == [hi |-> x.hi % Limb, lo |-> x.lo]

\* x > m for a limb pair x and an integer m >= 0.
LimbsGt(x, m) ==
    \/ x.hi > m \div Limb
    \/ x.hi = m \div Limb /\ x.lo > m % Limb

calculate_deviation_bps(new_price, old_price) ==
    IF old_price = 0
    THEN [hi |-> 0, lo |-> 10000]
    ELSE LET diff == IF new_price > old_price
                     THEN new_price - old_price
                     ELSE old_price - new_price
         IN AsU32(MulDiv10000(diff, old_price))

Min(a, b) == IF a < b THEN a ELSE b

calculate_confidence_no_bonus(valid_sources, total_sources) ==
    IF total_sources = 0
    THEN 0
    ELSE LET base_confidence == (valid_sources * 100) \div total_sources
         IN Min(100, base_confidence)

calculate_confidence_uncapped(valid_sources, total_sources) ==
    IF total_sources = 0
    THEN 0
    ELSE LET base_confidence == (valid_sources * 100) \div total_sources
             source_bonus == IF valid_sources >= 3 THEN 10 ELSE 0
         IN base_confidence + source_bonus

calculate_confidence(valid_sources, total_sources) ==
    IF total_sources = 0
    THEN 0
    ELSE LET base_confidence == (valid_sources * 100) \div total_sources
             source_bonus == IF valid_sources >= 3 THEN 10 ELSE 0
         IN Min(100, base_confidence + source_bonus)

RECURSIVE SumOver(_, _)
\* Sum of f[s] over the finite set S.
SumOver(S, f) ==
    IF S = {} THEN 0
    ELSE LET s == CHOOSE s \in S : TRUE IN f[s] + SumOver(S \ {s}, f)

\* ------------------------------------------------------------------ state

VARIABLES
    admins,          \* storage: Vec<Address> of admins (<<>> before init)
    min_signatures,  \* storage: quorum
    config,          \* storage: OracleConfig (None before init)
    cb,              \* storage: CircuitBreaker (None before init)
    trusted,         \* storage: source registry, source_id -> weight
    price_source,    \* storage: (asset, source_id) -> PriceSource or None
    aggregated,      \* storage: asset -> PriceData or None
    now,             \* e.ledger().timestamp()
    ret              \* outcome of the last invocation

\* The contracts deployed next to the oracle on the same ledger.
VARIABLES
    instance,          \* oracle-aggregator: instance storage (None before initialize)
    OracleSources,     \* oracle-aggregator: asset -> Vec<OracleSource>
    AggregatedPrice,   \* oracle-aggregator: asset -> (price, timestamp) or None
    EmergencyPrice,    \* oracle-aggregator: asset -> EmergencyPrice or None
    feed,              \* what each external oracle answers per asset: (price, timestamp) or None (Err)
    guardian_instance, \* security-guardian: instance storage (None before a pause)
    pool_paused,       \* the pool, a protocol contract of the guardian: is it paused
    TradeHistory,      \* mev-protection: (asset, block) -> Vec<TradeRecord>
    TradesCurrentBlock,\* mev-protection: trader -> Some(count), or None where no entry is stored
    CurrentBlock       \* mev-protection: Some(last processed block number), or None

\* Everything the oracle contract keeps in ledger storage.
storage == <<admins, min_signatures, config, cb, trusted, price_source, aggregated>>

\* Everything the oracle-aggregator keeps in ledger storage.
oa_storage == <<instance, OracleSources, AggregatedPrice, EmergencyPrice>>

\* Everything the trade store of mev-protection keeps in ledger storage.
mev_storage == <<TradeHistory, TradesCurrentBlock, CurrentBlock>>

\* What no entry point of the oracle touches.
elsewhere == <<oa_storage, feed, guardian_instance, pool_paused, mev_storage>>

vars == <<storage, now, ret, elsewhere>>

\* What the caller of an invocation observes: the entry point and the asset
\* it was called for ("" when it takes none), the ledger time of the call,
\* "ok" or the error it panicked with, the value returned and the events
\* published.
Outcome(op, asset, res, val, ev) ==
    [op |-> op, asset |-> asset, at |-> now, res |-> res, val |-> val, ev |-> ev]

\* panic_with_error!(err): the invocation aborts, and the host drops the
\* storage writes and the events the invocation made before the panic.
Panic(op, asset, err) ==
    /\ ret' = Outcome(op, asset, err, None, {})
    /\ UNCHANGED <<storage, now, elsewhere>>

\* The same after the invocation had already written `written_cb` as the
\* CircuitBreaker: that write is dropped with the rest.
PanicAfterWrite(op, asset, err, written_cb) ==
    Panic(op, asset, err)

has_admins == admins /= <<>>

Init ==
    /\ admins = <<>>
    /\ min_signatures = 0
    /\ config = None
    /\ cb = None
    /\ trusted = [s \in {} |-> 0]
    /\ price_source = [a \in Assets |-> [s \in SourceIds |-> None]]
    /\ aggregated = [a \in Assets |-> None]
    /\ now = 0
    /\ ret = Outcome("deploy", "", "ok", None, {})
    /\ instance = None
    /\ OracleSources = [a \in Assets |-> <<>>]
    /\ AggregatedPrice = [a \in Assets |-> None]
    /\ EmergencyPrice = [a \in Assets |-> None]
    /\ feed = [o \in Oracles |-> [a \in Assets |-> None]]
    /\ guardian_instance = None
    /\ pool_paused = FALSE
    /\ TradeHistory = [k \in MevAssets \X Blocks |-> <<>>]
    /\ TradesCurrentBlock = [t \in Traders |-> None]
    /\ CurrentBlock = None

\* ------------------------------------------------- storage module (mod storage)

\* storage::require_multi_sig: at least min_signatures distinct admins have
\* authorized the invocation; `signers` are the addresses that did.
require_multi_sig(signers) ==
    Cardinality(signers \cap Range(admins)) >= min_signatures

\* storage::require_authorized_source
require_authorized_source(source_id) == source_id \in DOMAIN trusted

\* storage::get_source_weight
get_source_weight(source_id) == trusted[source_id]

\* storage::get_all_price_sources: the source ids holding a record of `asset`
\* in the per-source store `ps`.
get_all_price_sources(ps, asset) == {s \in SourceIds : ps[asset][s] /= None}

\* storage::add_trusted_source
add_trusted_source(source_id, weight) ==
    [s \in DOMAIN trusted \cup {source_id} |->
        IF s = source_id THEN weight ELSE trusted[s]]

\* storage::remove_trusted_source
remove_trusted_source(source_id) ==
    [s \in DOMAIN trusted \ {source_id} |-> trusted[s]]

\* storage::add_admin
storage_add_admin(new_admin) ==
    IF new_admin \in Range(admins) THEN admins ELSE Append(admins, new_admin)

\* storage::remove_admin
storage_remove_admin(admin) == SelectSeq(admins, LAMBDA x : x /= admin)

\* ------------------------------------------------------------ entry points

\* Every entry point but init is taken on an initialized contract (guard
\* has_admins): what the storage getters do before init is not in the
\* contract file.  An invocation is atomic: it runs alone and either
\* returns, committing its writes, or panics, committing none.

init_reinitializable(new_admins, min_sigs, new_config) ==
    IF new_admins = <<>> \/ min_sigs = 0 \/ min_sigs > Len(new_admins)
    THEN Panic("init", "", "InvalidInput")
    ELSE IF new_config.max_price_deviation_bps > 10000
    THEN Panic("init", "", "InvalidInput")
    ELSE /\ admins' = new_admins
         /\ min_signatures' = min_sigs
         /\ config' = new_config
         /\ cb' = [is_paused |-> FALSE, pause_timestamp |-> 0, reason |-> ""]
         /\ ret' = Outcome("init", "", "ok", None, {"initialized"})
         /\ UNCHANGED <<trusted, price_source, aggregated, now, elsewhere>>

init(new_admins, min_sigs, new_config) ==
    IF has_admins
    THEN Panic("init", "", "AlreadyInitialized")
    ELSE IF new_admins = <<>> \/ min_sigs = 0 \/ min_sigs > Len(new_admins)
    THEN Panic("init", "", "InvalidInput")
    ELSE IF new_config.max_price_deviation_bps > 10000
    THEN Panic("init", "", "InvalidInput")
    ELSE /\ admins' = new_admins
         /\ min_signatures' = min_sigs
         /\ config' = new_config
         /\ cb' = [is_paused |-> FALSE, pause_timestamp |-> 0, reason |-> ""]
         /\ ret' = Outcome("init", "", "ok", None, {"initialized"})
         /\ UNCHANGED <<trusted, price_source, aggregated, now, elsewhere>>

IsStale_exclusive_bound(rec, cfg) == now - rec.timestamp >= cfg.max_staleness_seconds

\* The record is stale at the current ledger time under `cfg`.
IsStale(rec, cfg) == now - rec.timestamp > cfg.max_staleness_seconds

aggregate_prices_unweighted(ps, asset, cfg) ==
    LET sources == get_all_price_sources(ps, asset)
        valid == {s \in sources : ~IsStale(ps[asset][s], cfg)}
        total_price == SumOver(valid, [s \in valid |-> ps[asset][s].price])
        total_weight == SumOver(valid, [s \in valid |-> ps[asset][s].weight])
        valid_sources == Cardinality(valid)
    IN IF sources = {} \/ valid_sources = 0 \/ total_weight = 0
       THEN aggregated
       ELSE [aggregated EXCEPT ![asset] =
                [price |-> total_price \div valid_sources,
                 timestamp |-> now,
                 source_count |-> valid_sources,
                 confidence |-> calculate_confidence(valid_sources, Cardinality(sources))]]

aggregate_prices_percent(ps, asset, cfg) ==
    LET sources == get_all_price_sources(ps, asset)
        valid == {s \in sources : ~IsStale(ps[asset][s], cfg)}
        total_weighted_price ==
            SumOver(valid, [s \in valid |-> ps[asset][s].price * ps[asset][s].weight])
        total_weight == SumOver(valid, [s \in valid |-> ps[asset][s].weight])
        valid_sources == Cardinality(valid)
    IN IF sources = {} \/ valid_sources = 0 \/ total_weight = 0
       THEN aggregated
       ELSE [aggregated EXCEPT ![asset] =
                [price |-> total_weighted_price \div 100,
                 timestamp |-> now,
                 source_count |-> valid_sources,
                 confidence |-> calculate_confidence(valid_sources, Cardinality(sources))]]

\* aggregate_prices over the per-source store `ps`: the aggregate store it
\* leaves behind.  Stored prices are positive, so \div (floor) is Rust's
\* truncating division here.
aggregate_prices_by_count(ps, asset, cfg) ==
    LET sources == get_all_price_sources(ps, asset)
        valid == {s \in sources : ~IsStale(ps[asset][s], cfg)}
        total_weighted_price ==
            SumOver(valid, [s \in valid |-> ps[asset][s].price * ps[asset][s].weight])
        total_weight == SumOver(valid, [s \in valid |-> ps[asset][s].weight])
        valid_sources == Cardinality(valid)
    IN IF sources = {}
       THEN aggregated
       ELSE IF valid_sources = 0 \/ total_weight = 0
       THEN aggregated
       ELSE [aggregated EXCEPT ![asset] =
                [price |-> total_weighted_price \div valid_sources,
                 timestamp |-> now,
                 source_count |-> valid_sources,
                 confidence |-> calculate_confidence(valid_sources, Cardinality(sources))]]

aggregate_prices_registered_only(ps, asset, cfg) ==
    LET sources == get_all_price_sources(ps, asset)
        valid == {s \in sources : /\ ~IsStale(ps[asset][s], cfg)
                                  /\ require_authorized_source(s)}
        total_weighted_price ==
            SumOver(valid, [s \in valid |-> ps[asset][s].price * ps[asset][s].weight])
        total_weight == SumOver(valid, [s \in valid |-> ps[asset][s].weight])
        valid_sources == Cardinality(valid)
    IN IF sources = {}
       THEN aggregated
       ELSE IF valid_sources = 0 \/ total_weight = 0
       THEN aggregated
       ELSE [aggregated EXCEPT ![asset] =
                [price |-> total_weighted_price \div total_weight,
                 timestamp |-> now,
                 source_count |-> valid_sources,
                 confidence |-> calculate_confidence(valid_sources, Cardinality(sources))]]

aggregate_prices(ps, asset, cfg) ==
    LET sources == get_all_price_sources(ps, asset)
        valid == {s \in sources : ~IsStale(ps[asset][s], cfg)}
        total_weighted_price ==
            SumOver(valid, [s \in valid |-> ps[asset][s].price * ps[asset][s].weight])
        total_weight == SumOver(valid, [s \in valid |-> ps[asset][s].weight])
        valid_sources == Cardinality(valid)
    IN IF sources = {}
       THEN aggregated
       ELSE IF valid_sources = 0 \/ total_weight = 0
       THEN aggregated
       ELSE [aggregated EXCEPT ![asset] =
                [price |-> total_weighted_price \div total_weight,
                 timestamp |-> now,
                 source_count |-> valid_sources,
                 confidence |-> calculate_confidence(valid_sources, Cardinality(sources))]]

\* The circuit breaker check that opens submit_price.
breaker_never_blocks == FALSE

breaker_blocks == cb.is_paused

auto_pause(reason) ==
    [is_paused |-> TRUE, pause_timestamp |-> now, reason |-> reason]

submit_price_accepts_zero(asset, price, source_id) ==
    /\ has_admins
    /\ IF breaker_blocks
       THEN Panic("submit_price", asset, "CircuitBreakerActive")
       ELSE IF ~require_authorized_source(source_id)
       THEN Panic("submit_price", asset, "UnauthorizedSource")
       ELSE IF price < 0
       THEN Panic("submit_price", asset, "InvalidPrice")
       ELSE LET prev_price_data == aggregated[asset]
                timestamp == now
                deviates ==
                    /\ prev_price_data /= None
                    /\ LimbsGt(calculate_deviation_bps(price, prev_price_data.price),
                               config.max_price_deviation_bps)
                heartbeat ==
                    IF /\ prev_price_data /= None
                       /\ timestamp - prev_price_data.timestamp > config.heartbeat_interval * 2
                    THEN {"heartbeat_missed"}
                    ELSE {}
                price_source_rec ==
                    [source_id |-> source_id, price |-> price, timestamp |-> timestamp,
                     weight |-> get_source_weight(source_id)]
                stored == [price_source EXCEPT ![asset][source_id] = price_source_rec]
            IN IF deviates
               THEN PanicAfterWrite("submit_price", asset, "PriceDeviationExceeded",
                                    auto_pause("deviation"))
               ELSE /\ price_source' = stored
                    /\ aggregated' = aggregate_prices(stored, asset, config)
                    /\ ret' = Outcome("submit_price", asset, "ok", None,
                                      heartbeat \cup {"price_submitted"})
                    /\ UNCHANGED <<admins, min_signatures, config, cb, trusted, now, elsewhere>>

submit_price_validates_price_first(asset, price, source_id) ==
    /\ has_admins
    /\ IF breaker_blocks
       THEN Panic("submit_price", asset, "CircuitBreakerActive")
       ELSE IF price <= 0
       THEN Panic("submit_price", asset, "InvalidPrice")
       ELSE IF ~require_authorized_source(source_id)
       THEN Panic("submit_price", asset, "UnauthorizedSource")
       ELSE LET prev_price_data == aggregated[asset]
                timestamp == now
                deviates ==
                    /\ prev_price_data /= None
                    /\ LimbsGt(calculate_deviation_bps(price, prev_price_data.price),
                               config.max_price_deviation_bps)
                heartbeat ==
                    IF /\ prev_price_data /= None
                       /\ timestamp - prev_price_data.timestamp > config.heartbeat_interval * 2
                    THEN {"heartbeat_missed"}
                    ELSE {}
                price_source_rec ==
                    [source_id |-> source_id, price |-> price, timestamp |-> timestamp,
                     weight |-> get_source_weight(source_id)]
                stored == [price_source EXCEPT ![asset][source_id] = price_source_rec]
            IN IF deviates
               THEN PanicAfterWrite("submit_price", asset, "PriceDeviationExceeded",
                                    auto_pause("deviation"))
               ELSE /\ price_source' = stored
                    /\ aggregated' = aggregate_prices(stored, asset, config)
                    /\ ret' = Outcome("submit_price", asset, "ok", None,
                                      heartbeat \cup {"price_submitted"})
                    /\ UNCHANGED <<admins, min_signatures, config, cb, trusted, now, elsewhere>>

submit_price_stores_rejected(asset, price, source_id) ==
    /\ has_admins
    /\ IF breaker_blocks
       THEN Panic("submit_price", asset, "CircuitBreakerActive")
       ELSE IF ~require_authorized_source(source_id)
       THEN Panic("submit_price", asset, "UnauthorizedSource")
       ELSE IF price <= 0
       THEN Panic("submit_price", asset, "InvalidPrice")
       ELSE LET prev_price_data == aggregated[asset]
                timestamp == now
                deviates ==
                    /\ prev_price_data /= None
                    /\ LimbsGt(calculate_deviation_bps(price, prev_price_data.price),
                               config.max_price_deviation_bps)
                heartbeat ==
                    IF /\ prev_price_data /= None
                       /\ timestamp - prev_price_data.timestamp > config.heartbeat_interval * 2
                    THEN {"heartbeat_missed"}
                    ELSE {}
                price_source_rec ==
                    [source_id |-> source_id, price |-> price, timestamp |-> timestamp,
                     weight |-> get_source_weight(source_id)]
                stored == [price_source EXCEPT ![asset][source_id] = price_source_rec]
            IN IF deviates
               THEN /\ price_source' = stored
                    /\ ret' = Outcome("submit_price", asset, "PriceDeviationExceeded", None, {})
                    /\ UNCHANGED <<admins, min_signatures, config, cb, trusted,
                                   aggregated, now, elsewhere>>
               ELSE /\ price_source' = stored
                    /\ aggregated' = aggregate_prices(stored, asset, config)
                    /\ ret' = Outcome("submit_price", asset, "ok", None,
                                      heartbeat \cup {"price_submitted"})
                    /\ UNCHANGED <<admins, min_signatures, config, cb, trusted, now, elsewhere>>

submit_price_keeps_first_record(asset, price, source_id) ==
    /\ has_admins
    /\ IF breaker_blocks
       THEN Panic("submit_price", asset, "CircuitBreakerActive")
       ELSE IF ~require_authorized_source(source_id)
       THEN Panic("submit_price", asset, "UnauthorizedSource")
       ELSE IF price <= 0
       THEN Panic("submit_price", asset, "InvalidPrice")
       ELSE LET prev_price_data == aggregated[asset]
                timestamp == now
                deviates ==
                    /\ prev_price_data /= None
                    /\ LimbsGt(calculate_deviation_bps(price, prev_price_data.price),
                               config.max_price_deviation_bps)
                heartbeat ==
                    IF /\ prev_price_data /= None
                       /\ timestamp - prev_price_data.timestamp > config.heartbeat_interval * 2
                    THEN {"heartbeat_missed"}
                    ELSE {}
                price_source_rec ==
                    [source_id |-> source_id, price |-> price, timestamp |-> timestamp,
                     weight |-> get_source_weight(source_id)]
                stored == IF price_source[asset][source_id] /= None
                          THEN price_source
                          ELSE [price_source EXCEPT ![asset][source_id] = price_source_rec]
            IN IF deviates
               THEN PanicAfterWrite("submit_price", asset, "PriceDeviationExceeded",
                                    auto_pause("deviation"))
               ELSE /\ price_source' = stored
                    /\ aggregated' = aggregate_prices(stored, asset, config)
                    /\ ret' = Outcome("submit_price", asset, "ok", None,
                                      heartbeat \cup {"price_submitted"})
                    /\ UNCHANGED <<admins, min_signatures, config, cb, trusted, now, elsewhere>>

submit_price_heartbeat_single(asset, price, source_id) ==
    /\ has_admins
    /\ IF breaker_blocks
       THEN Panic("submit_price", asset, "CircuitBreakerActive")
       ELSE IF ~require_authorized_source(source_id)
       THEN Panic("submit_price", asset, "UnauthorizedSource")
       ELSE IF price <= 0
       THEN Panic("submit_price", asset, "InvalidPrice")
       ELSE LET prev_price_data == aggregated[asset]
                timestamp == now
                deviates ==
                    /\ prev_price_data /= None
                    /\ LimbsGt(calculate_deviation_bps(price, prev_price_data.price),
                               config.max_price_deviation_bps)
                heartbeat ==
                    IF /\ prev_price_data /= None
                       /\ timestamp - prev_price_data.timestamp > config.heartbeat_interval
                    THEN {"heartbeat_missed"}
                    ELSE {}
                price_source_rec ==
                    [source_id |-> source_id, price |-> price, timestamp |-> timestamp,
                     weight |-> get_source_weight(source_id)]
                stored == [price_source EXCEPT ![asset][source_id] = price_source_rec]
            IN IF deviates
               THEN PanicAfterWrite("submit_price", asset, "PriceDeviationExceeded",
                                    auto_pause("deviation"))
               ELSE /\ price_source' = stored
                    /\ aggregated' = aggregate_prices(stored, asset, config)
                    /\ ret' = Outcome("submit_price", asset, "ok", None,
                                      heartbeat \cup {"price_submitted"})
                    /\ UNCHANGED <<admins, min_signatures, config, cb, trusted, now, elsewhere>>

submit_price_aggregates_every_asset(asset, price, source_id) ==
    /\ has_admins
    /\ IF breaker_blocks
       THEN Panic("submit_price", asset, "CircuitBreakerActive")
       ELSE IF ~require_authorized_source(source_id)
       THEN Panic("submit_price", asset, "UnauthorizedSource")
       ELSE IF price <= 0
       THEN Panic("submit_price", asset, "InvalidPrice")
       ELSE LET prev_price_data == aggregated[asset]
                timestamp == now
                deviates ==
                    /\ prev_price_data /= None
                    /\ LimbsGt(calculate_deviation_bps(price, prev_price_data.price),
                               config.max_price_deviation_bps)
                heartbeat ==
                    IF /\ prev_price_data /= None
                       /\ timestamp - prev_price_data.timestamp > config.heartbeat_interval * 2
                    THEN {"heartbeat_missed"}
                    ELSE {}
                price_source_rec ==
                    [source_id |-> source_id, price |-> price, timestamp |-> timestamp,
                     weight |-> get_source_weight(source_id)]
                stored == [price_source EXCEPT ![asset][source_id] = price_source_rec]
            IN IF deviates
               THEN PanicAfterWrite("submit_price", asset, "PriceDeviationExceeded",
                                    auto_pause("deviation"))
               ELSE /\ price_source' = stored
                    /\ aggregated' =
                           [a \in Assets |-> aggregate_prices(stored, a, config)[a]]
                    /\ ret' = Outcome("submit_price", asset, "ok", None,
                                      heartbeat \cup {"price_submitted"})
                    /\ UNCHANGED <<admins, min_signatures, config, cb, trusted, now, elsewhere>>

submit_price(asset, price, source_id) ==
    /\ has_admins
    /\ IF breaker_blocks
       THEN Panic("submit_price", asset, "CircuitBreakerActive")
       ELSE IF ~require_authorized_source(source_id)
       THEN Panic("submit_price", asset, "UnauthorizedSource")
       ELSE IF price <= 0
       THEN Panic("submit_price", asset, "InvalidPrice")
       ELSE LET prev_price_data == aggregated[asset]
                timestamp == now
                deviates ==
                    /\ prev_price_data /= None
                    /\ LimbsGt(calculate_deviation_bps(price, prev_price_data.price),
                               config.max_price_deviation_bps)
                heartbeat ==
                    IF /\ prev_price_data /= None
                       /\ timestamp - prev_price_data.timestamp > config.heartbeat_interval * 2
                    THEN {"heartbeat_missed"}
                    ELSE {}
                price_source_rec ==
                    [source_id |-> source_id, price |-> price, timestamp |-> timestamp,
                     weight |-> get_source_weight(source_id)]
                stored == [price_source EXCEPT ![asset][source_id] = price_source_rec]
            IN IF deviates
               THEN PanicAfterWrite("submit_price", asset, "PriceDeviationExceeded",
                                    auto_pause("deviation"))
               ELSE /\ price_source' = stored
                    /\ aggregated' = aggregate_prices(stored, asset, config)
                    /\ ret' = Outcome("submit_price", asset, "ok", None,
                                      heartbeat \cup {"price_submitted"})
                    /\ UNCHANGED <<admins, min_signatures, config, cb, trusted, now, elsewhere>>

lastprice_exclusive_bound(asset) ==
    /\ has_admins
    /\ LET price_data == aggregated[asset]
           age == now - price_data.timestamp
       IN IF price_data = None
          THEN ret' = Outcome("lastprice", asset, "ok", None, {})
          ELSE IF age >= config.max_staleness_seconds
          THEN ret' = Outcome("lastprice", asset, "ok", None, {"stale_price_detected"})
          ELSE IF price_data.source_count < config.min_sources_required
          THEN ret' = Outcome("lastprice", asset, "ok", None, {})
          ELSE ret' = Outcome("lastprice", asset, "ok", price_data, {})
    /\ UNCHANGED <<storage, now, elsewhere>>

lastprice_purges_stale(asset) ==
    /\ has_admins
    /\ LET price_data == aggregated[asset]
           age == now - price_data.timestamp
       IN IF price_data = None
          THEN ret' = Outcome("lastprice", asset, "ok", None, {}) /\ UNCHANGED aggregated
          ELSE IF age > config.max_staleness_seconds
          THEN /\ ret' = Outcome("lastprice", asset, "ok", None, {"stale_price_detected"})
               /\ aggregated' = [aggregated EXCEPT ![asset] = None]
          ELSE IF price_data.source_count < config.min_sources_required
          THEN ret' = Outcome("lastprice", asset, "ok", None, {}) /\ UNCHANGED aggregated
          ELSE ret' = Outcome("lastprice", asset, "ok", price_data, {}) /\ UNCHANGED aggregated
    /\ UNCHANGED <<admins, min_signatures, config, cb, trusted, price_source, now, elsewhere>>

lastprice_blocked_when_paused(asset) ==
    /\ has_admins
    /\ LET price_data == aggregated[asset]
           age == now - price_data.timestamp
       IN IF cb.is_paused \/ price_data = None
          THEN ret' = Outcome("lastprice", asset, "ok", None, {})
          ELSE IF age > config.max_staleness_seconds
          THEN ret' = Outcome("lastprice", asset, "ok", None, {"stale_price_detected"})
          ELSE IF price_data.source_count < config.min_sources_required
          THEN ret' = Outcome("lastprice", asset, "ok", None, {})
          ELSE ret' = Outcome("lastprice", asset, "ok", price_data, {})
    /\ UNCHANGED <<storage, now, elsewhere>>

lastprice(asset) ==
    /\ has_admins
    /\ LET price_data == aggregated[asset]
           age == now - price_data.timestamp
       IN IF price_data = None
          THEN ret' = Outcome("lastprice", asset, "ok", None, {})
          ELSE IF age > config.max_staleness_seconds
          THEN ret' = Outcome("lastprice", asset, "ok", None, {"stale_price_detected"})
          ELSE IF price_data.source_count < config.min_sources_required
          THEN ret' = Outcome("lastprice", asset, "ok", None, {})
          ELSE ret' = Outcome("lastprice", asset, "ok", price_data, {})
    /\ UNCHANGED <<storage, now, elsewhere>>

pause_ungated(reason, signers) ==
    /\ has_admins
    /\ cb' = [is_paused |-> TRUE, pause_timestamp |-> now, reason |-> reason]
    /\ ret' = Outcome("pause", "", "ok", None, {"circuit_breaker_triggered"})
    /\ UNCHANGED <<admins, min_signatures, config, trusted, price_source,
                   aggregated, now, elsewhere>>

pause(reason, signers) ==
    /\ has_admins
    /\ IF ~require_multi_sig(signers)
       THEN Panic("pause", "", "GovernanceDenied")
       ELSE /\ cb' = [is_paused |-> TRUE, pause_timestamp |-> now, reason |-> reason]
            /\ ret' = Outcome("pause", "", "ok", None, {"circuit_breaker_triggered"})
            /\ UNCHANGED <<admins, min_signatures, config, trusted, price_source,
                           aggregated, now, elsewhere>>

resume(signers) ==
    /\ has_admins
    /\ IF ~require_multi_sig(signers)
       THEN Panic("resume", "", "GovernanceDenied")
       ELSE /\ cb' = [is_paused |-> FALSE, pause_timestamp |-> 0, reason |-> ""]
            /\ ret' = Outcome("resume", "", "ok", None, {"circuit_breaker_reset"})
            /\ UNCHANGED <<admins, min_signatures, config, trusted, price_source,
                           aggregated, now, elsewhere>>

update_config_resets_breaker(new_config, signers) ==
    /\ has_admins
    /\ IF ~require_multi_sig(signers)
       THEN Panic("update_config", "", "GovernanceDenied")
       ELSE IF new_config.max_price_deviation_bps > 10000
       THEN Panic("update_config", "", "InvalidInput")
       ELSE /\ config' = new_config
            /\ cb' = [is_paused |-> FALSE, pause_timestamp |-> 0, reason |-> ""]
            /\ ret' = Outcome("update_config", "", "ok", None, {"config_updated"})
            /\ UNCHANGED <<admins, min_signatures, trusted, price_source,
                           aggregated, now, elsewhere>>

update_config_unbounded(new_config, signers) ==
    /\ has_admins
    /\ IF ~require_multi_sig(signers)
       THEN Panic("update_config", "", "GovernanceDenied")
       ELSE /\ config' = new_config
            /\ ret' = Outcome("update_config", "", "ok", None, {"config_updated"})
            /\ UNCHANGED <<admins, min_signatures, cb, trusted, price_source,
                           aggregated, now, elsewhere>>

update_config(new_config, signers) ==
    /\ has_admins
    /\ IF ~require_multi_sig(signers)
       THEN Panic("update_config", "", "GovernanceDenied")
       ELSE IF new_config.max_price_deviation_bps > 10000
       THEN Panic("update_config", "", "InvalidInput")
       ELSE /\ config' = new_config
            /\ ret' = Outcome("update_config", "", "ok", None, {"config_updated"})
            /\ UNCHANGED <<admins, min_signatures, cb, trusted, price_source,
                           aggregated, now, elsewhere>>

add_source_unbounded(source_id, weight, signers) ==
    /\ has_admins
    /\ IF ~require_multi_sig(signers)
       THEN Panic("add_source", "", "GovernanceDenied")
       ELSE /\ trusted' = add_trusted_source(source_id, weight)
            /\ ret' = Outcome("add_source", "", "ok", None, {"source_added"})
            /\ UNCHANGED <<admins, min_signatures, config, cb, price_source,
                           aggregated, now, elsewhere>>

add_source(source_id, weight, signers) ==
    /\ has_admins
    /\ IF ~require_multi_sig(signers)
       THEN Panic("add_source", "", "GovernanceDenied")
       ELSE IF weight > 100
       THEN Panic("add_source", "", "InvalidInput")
       ELSE /\ trusted' = add_trusted_source(source_id, weight)
            /\ ret' = Outcome("add_source", "", "ok", None, {"source_added"})
            /\ UNCHANGED <<admins, min_signatures, config, cb, price_source,
                           aggregated, now, elsewhere>>

remove_source(source_id, signers) ==
    /\ has_admins
    /\ IF ~require_multi_sig(signers)
       THEN Panic("remove_source", "", "GovernanceDenied")
       ELSE /\ trusted' = remove_trusted_source(source_id)
            /\ ret' = Outcome("remove_source", "", "ok", None, {"source_removed"})
            /\ UNCHANGED <<admins, min_signatures, config, cb, price_source,
                           aggregated, now, elsewhere>>

add_admin(new_admin, signers) ==
    /\ has_admins
    /\ IF ~require_multi_sig(signers)
       THEN Panic("add_admin", "", "GovernanceDenied")
       ELSE /\ admins' = storage_add_admin(new_admin)
            /\ ret' = Outcome("add_admin", "", "ok", None, {"admin_added"})
            /\ UNCHANGED <<min_signatures, config, cb, trusted, price_source,
                           aggregated, now, elsewhere>>

remove_admin_below_only(admin, signers) ==
    /\ has_admins
    /\ IF ~require_multi_sig(signers)
       THEN Panic("remove_admin", "", "GovernanceDenied")
       ELSE IF Len(admins) < min_signatures
       THEN Panic("remove_admin", "", "InsufficientAdmins")
       ELSE /\ admins' = storage_remove_admin(admin)
            /\ ret' = Outcome("remove_admin", "", "ok", None, {"admin_removed"})
            /\ UNCHANGED <<min_signatures, config, cb, trusted, price_source,
                           aggregated, now, elsewhere>>

remove_admin(admin, signers) ==
    /\ has_admins
    /\ IF ~require_multi_sig(signers)
       THEN Panic("remove_admin", "", "GovernanceDenied")
       ELSE IF Len(admins) <= min_signatures
       THEN Panic("remove_admin", "", "InsufficientAdmins")
       ELSE /\ admins' = storage_remove_admin(admin)
            /\ ret' = Outcome("remove_admin", "", "ok", None, {"admin_removed"})
            /\ UNCHANGED <<min_signatures, config, cb, trusted, price_source,
                           aggregated, now, elsewhere>>

\* The ledger closes: e.ledger().timestamp() advances.
Tick(limit) ==
    /\ now < limit
    /\ now' = now + 1
    /\ UNCHANGED <<storage, ret, elsewhere>>

\* ------------------------------------- oracle-aggregator (pull mode)

\* return Err(err): the invocation fails and leaves no write behind.
ReturnErr(op, asset, err) == Panic(op, asset, err)

\* i128 division, truncating toward zero, for b /= 0.
TruncDiv(a, b) ==
    LET abs(x) == IF x < 0 THEN -x ELSE x
        q == abs(a) \div abs(b)
    IN IF (a < 0) = (b < 0) THEN q ELSE -q

Max(a, b) == IF a > b THEN a ELSE b

RECURSIVE MaxOver(_, _)
\* The largest of f[s] over the finite set S, and 0 for the empty set.
MaxOver(S, f) ==
    IF S = {} THEN 0
    ELSE LET s == CHOOSE s \in S : TRUE IN Max(f[s], MaxOver(S \ {s}, f))

\* Self::require_admin
require_admin(admin) == instance /= None /\ instance.admin = admin

\* Self::require_emergency_guardian
EmergencyGuardians == {"G"}
require_emergency_guardian(guardian) == guardian \in EmergencyGuardians

\* Self::get_oracle_sources
get_oracle_sources(asset) == OracleSources[asset]

\* Self::get_oracle_price: the answer of the external oracle, None for Err.
get_oracle_price(oracle, asset) == feed[oracle][asset]

OracleSource(oracle, weight) ==
    [oracle |-> oracle, weight |-> weight, last_update |-> 0, is_active |-> TRUE]

initialize(admin, price_deviation_threshold, heartbeat_timeout, min_oracles_required) ==
    IF instance /= None
    THEN ReturnErr("initialize", "", "AlreadyInitialized")
    ELSE /\ instance' = [admin |-> admin,
                         price_deviation_threshold |-> price_deviation_threshold,
                         heartbeat_timeout |-> heartbeat_timeout,
                         min_oracles_required |-> min_oracles_required]
         /\ ret' = Outcome("initialize", "", "ok", None, {})
         /\ UNCHANGED <<storage, now, OracleSources, AggregatedPrice, EmergencyPrice,
                        feed, guardian_instance, pool_paused, mev_storage>>

add_oracle_source(admin, asset, oracle, weight) ==
    LET sources == get_oracle_sources(asset)
    IN IF ~require_admin(admin)
       THEN ReturnErr("add_oracle_source", asset, "Unauthorized")
       ELSE IF \E i \in DOMAIN sources : sources[i].oracle = oracle
       THEN ReturnErr("add_oracle_source", asset, "OracleAlreadyExists")
       ELSE /\ OracleSources' =
                  [OracleSources EXCEPT ![asset] = Append(sources, OracleSource(oracle, weight))]
            /\ ret' = Outcome("add_oracle_source", asset, "ok", None, {"oracle_source_added"})
            /\ UNCHANGED <<storage, now, instance, AggregatedPrice, EmergencyPrice,
                           feed, guardian_instance, pool_paused, mev_storage>>

WithinHeartbeat_unchecked(answer, heartbeat_timeout) == answer.timestamp <= now

\* The feed's answer is at most heartbeat_timeout old.
WithinHeartbeat(answer, heartbeat_timeout) == now - answer.timestamp <= heartbeat_timeout

\* validate_price_deviation for an aggregate /= 0: the events it publishes
\* (it never fails).  `prices` are the valid feeds' prices.
validate_price_deviation(aggregated_price, prices) ==
    LET deviation(price) ==
            IF price > aggregated_price
            THEN TruncDiv((price - aggregated_price) * 10000, aggregated_price)
            ELSE TruncDiv((aggregated_price - price) * 10000, aggregated_price)
    IN IF \E price \in prices : deviation(price) > instance.price_deviation_threshold
       THEN {"price_deviation_alert"}
       ELSE {}

get_price(asset) ==
    /\ instance /= None
    /\ LET sources == get_oracle_sources(asset)
           min_required == instance.min_oracles_required
           answer(i) == get_oracle_price(sources[i].oracle, asset)
           \* the places in `sources` whose price enters valid_prices
           valid == {i \in DOMAIN sources :
                        /\ sources[i].is_active
                        /\ answer(i) /= None
                        /\ WithinHeartbeat(answer(i), instance.heartbeat_timeout)}
           total_weight == SumOver(valid, [i \in valid |-> sources[i].weight])
           weighted_sum ==
               SumOver(valid, [i \in valid |-> answer(i).price * sources[i].weight])
           latest_timestamp == MaxOver(valid, [i \in valid |-> answer(i).timestamp])
           aggregated_price == TruncDiv(weighted_sum, total_weight)
       IN IF Len(sources) < min_required
          THEN ReturnErr("get_price", asset, "InsufficientOracleSources")
          ELSE IF Cardinality(valid) < min_required
          THEN ReturnErr("get_price", asset, "InsufficientValidPrices")
          ELSE IF total_weight = 0 \/ aggregated_price = 0
          THEN Panic("get_price", asset, "DivisionByZero")
          ELSE /\ AggregatedPrice' =
                     [AggregatedPrice EXCEPT ![asset] =
                         [price |-> aggregated_price, timestamp |-> latest_timestamp]]
               /\ ret' = Outcome("get_price", asset, "ok",
                                 [price |-> aggregated_price, timestamp |-> latest_timestamp],
                                 validate_price_deviation(aggregated_price,
                                     {answer(i).price : i \in valid})
                                 \cup {"price_aggregated"})
               /\ UNCHANGED <<storage, now, instance, OracleSources, EmergencyPrice,
                              feed, guardian_instance, pool_paused, mev_storage>>

emergency_set_price_expiry_is_duration(guardian, asset, price, duration) ==
    IF ~require_emergency_guardian(guardian)
    THEN ReturnErr("emergency_set_price", asset, "Unauthorized")
    ELSE /\ EmergencyPrice' =
               [EmergencyPrice EXCEPT ![asset] =
                   [price |-> price, set_at |-> now, expires_at |-> duration,
                    set_by |-> guardian]]
         /\ ret' = Outcome("emergency_set_price", asset, "ok", None, {"emergency_price_set"})
         /\ UNCHANGED <<storage, now, instance, OracleSources, AggregatedPrice,
                        feed, guardian_instance, pool_paused, mev_storage>>

emergency_set_price(guardian, asset, price, duration) ==
    IF ~require_emergency_guardian(guardian)
    THEN ReturnErr("emergency_set_price", asset, "Unauthorized")
    ELSE /\ EmergencyPrice' =
               [EmergencyPrice EXCEPT ![asset] =
                   [price |-> price, set_at |-> now, expires_at |-> now + duration,
                    set_by |-> guardian]]
         /\ ret' = Outcome("emergency_set_price", asset, "ok", None, {"emergency_price_set"})
         /\ UNCHANGED <<storage, now, instance, OracleSources, AggregatedPrice,
                        feed, guardian_instance, pool_paused, mev_storage>>

\* An external oracle takes a new price for the asset, stamped with the
\* ledger time, or goes out of service.
FeedReports(oracle, asset, price) ==
    /\ feed' = [feed EXCEPT ![oracle][asset] = [price |-> price, timestamp |-> now]]
    /\ UNCHANGED <<storage, now, ret, oa_storage, guardian_instance, pool_paused, mev_storage>>

FeedFails(oracle, asset) ==
    /\ feed[oracle][asset] /= None
    /\ feed' = [feed EXCEPT ![oracle][asset] = None]
    /\ UNCHANGED <<storage, now, ret, oa_storage, guardian_instance, pool_paused, mev_storage>>

\* --------------------------------------------------- security-guardian

\* Self::require_guardian
Guardians == {"G"}
require_guardian(guardian) == guardian \in Guardians

\* Self::get_protocol_contracts: the oracle and the pool.
ProtocolContracts == {"oracle", "pool"}

\* env.try_invoke_contract(oracle, "pause", ()): the oracle's pause takes a
\* reason and the signatures of the admins' quorum; invoked with no
\* argument by the guardian contract it fails, its writes are dropped, and
\* try_ hands the failure to the caller as a value.  The breaker it leaves.
try_invoke_oracle_pause == cb

\* env.try_invoke_contract(pool, "pause", ()): the pool is paused if its
\* pause succeeds and is left as it was if it fails.
try_invoke_pool_pause == {TRUE, pool_paused}

emergency_pause_all(guardian, reason) ==
    IF ~require_guardian(guardian)
    THEN ReturnErr("emergency_pause_all", "", "Unauthorized")
    ELSE /\ cb' = try_invoke_oracle_pause
         /\ pool_paused' \in try_invoke_pool_pause
         /\ guardian_instance' =
                [EmergencyPaused |-> TRUE, PauseReason |-> reason,
                 PausedAt |-> now, PausedBy |-> guardian]
         /\ ret' = Outcome("emergency_pause_all", "", "ok", None, {"emergency_pause_all"})
         /\ UNCHANGED <<admins, min_signatures, config, trusted, price_source,
                        aggregated, now, oa_storage, feed, mev_storage>>

\* ------------------------------------------- mev-protection (trade store)

\* The other contracts' storage and the ledger clock, which the trade store
\* leaves alone.
outside_mev ==
    <<storage, now, oa_storage, feed, guardian_instance, pool_paused>>

\* Some(v) of an Option whose absent value is None.
Some(v) == [some |-> v]

TradeRecord(trader, asset, block) ==
    [trader |-> trader, asset |-> asset, block |-> block]

get_trades_for_block(asset, block) == TradeHistory[<<asset, block>>]

\* The body is empty: no count is reset.
reset_all_trades_counts(counts) == counts

\* The pair (CurrentBlock, TradesCurrentBlock) that update_current_block
\* leaves behind, .unwrap_or(0u32) standing for a missing CurrentBlock.
update_current_block(block) ==
    LET current == IF CurrentBlock = None THEN 0 ELSE CurrentBlock.some
    IN IF block > current
       THEN <<Some(block), reset_all_trades_counts(TradesCurrentBlock)>>
       ELSE <<CurrentBlock, TradesCurrentBlock>>

\* The trade history after the record of block current_block - 100 has
\* been removed, if there is such a block.
cleanup_old_trades(history, asset, current_block) ==
    IF current_block > 100 /\ <<asset, current_block - 100>> \in DOMAIN history
    THEN [history EXCEPT ![<<asset, current_block - 100>>] = <<>>]
    ELSE history

add_trade_record(trade) ==
    LET block == trade.block
        asset == trade.asset
        trades == Append(get_trades_for_block(asset, block), trade)
        updated == update_current_block(block)
    IN /\ Len(get_trades_for_block(asset, block)) < MaxTradesPerBlock
       /\ TradeHistory' =
              cleanup_old_trades([TradeHistory EXCEPT ![<<asset, block>>] = trades],
                                 asset, block)
       /\ CurrentBlock' = updated[1]
       /\ TradesCurrentBlock' = updated[2]
       /\ ret' = Outcome("add_trade_record", asset, "ok", None, {})
       /\ UNCHANGED outside_mev

\* The count read for `trader` from the counts `counts`.
trades_count(counts, trader) ==
    IF counts[trader] = None THEN 0 ELSE counts[trader].some

get_trades_count_current_block(trader) ==
    /\ ret' = Outcome("get_trades_count_current_block", "", "ok",
                      [trader |-> trader,
                       count |-> trades_count(TradesCurrentBlock, trader)], {})
    /\ UNCHANGED <<outside_mev, mev_storage>>

increment_trades_count_current_block(trader) ==
    LET count == trades_count(TradesCurrentBlock, trader)
    IN /\ count < MaxCount
       /\ TradesCurrentBlock' = [TradesCurrentBlock EXCEPT ![trader] = Some(count + 1)]
       /\ ret' = Outcome("increment_trades_count_current_block", "", "ok", None, {})
       /\ UNCHANGED <<outside_mev, TradeHistory, CurrentBlock>>

\* ------------------------------------------------------------ specifications

\* Spec: every entry point, over two assets and one registrable source.
Prices == {0, 100, 151}
Weights == {60, 101}
Configs == {Config(5000, 1, 1, 1), Config(5000, 0, 2, 1), Config(10001, 1, 1, 1)}
SignerSets == {{"A"}, {"A", "B"}}
AdminVecs == {<<>>, <<"A", "B">>}
MinSigs == {0, 2, 3}

Next ==
    \/ \E v \in AdminVecs, m \in MinSigs, c \in Configs : init(v, m, c)
    \/ \E a \in Assets, p \in Prices, s \in SourceIds : submit_price(a, p, s)
    \/ \E a \in Assets : lastprice(a)
    \/ \E g \in SignerSets : pause("manual", g)
    \/ \E g \in SignerSets : resume(g)
    \/ \E c \in Configs, g \in SignerSets : update_config(c, g)
    \/ \E w \in Weights, g \in SignerSets : add_source("S1", w, g)
    \/ \E g \in SignerSets : remove_source("S1", g)
    \/ \E g \in SignerSets : add_admin("C", g)
    \/ \E g \in SignerSets : remove_admin("C", g)
    \/ Tick(MaxTimeGov)

Spec == Init /\ [][Next]_vars

\* SpecAgg: submission, aggregation and reads of one asset by two sources,
\* S1 registered with weight 0 or 60 and S2 with weight 40, under a quorum
\* that always signs.
AggPrices == {100, 151, 199}
AggWeights == {0, 60}
AggConfigs == {Config(10000, 1, 1, 1), Config(10000, 0, 2, 1)}
Quorum == {"A", "B"}

NextAgg ==
    \/ \E c \in AggConfigs : init(<<"A", "B">>, 2, c)
    \/ \E p \in AggPrices, s \in SourceIds : submit_price("XLM", p, s)
    \/ lastprice("XLM")
    \/ \E c \in AggConfigs : update_config(c, Quorum)
    \/ \E w \in AggWeights : add_source("S1", w, Quorum)
    \/ add_source("S2", 40, Quorum)
    \/ Tick(MaxTime)

SpecAgg == Init /\ [][NextAgg]_vars

\* SpecDev: the deviation check of one asset fed by one source, over prices
\* from 1 to 429498.
DevPrices == {1, 100, 110, 111, 150, 151, 429498}
DevConfigs == {Config(1000, 1, 1, 1), Config(5000, 1, 1, 1), Config(10000, 1, 1, 1)}

NextDev ==
    \/ \E c \in DevConfigs : init(<<"A", "B">>, 2, c)
    \/ \E p \in DevPrices : submit_price("XLM", p, "S1")
    \/ \E c \in DevConfigs : update_config(c, Quorum)
    \/ add_source("S1", 60, Quorum)

SpecDev == Init /\ [][NextDev]_vars

\* SpecPull: the oracle-aggregator polling two external oracles for one
\* asset, O1 (weight 60) answering 100 and O2 (weight 40) answering 120,
\* next to an emergency price of 777 set for 0 or 1 seconds.
PullMinRequired == {1, 2}
PullWeight == [o \in Oracles |-> IF o = "O1" THEN 60 ELSE 40]
PullPrice == [o \in Oracles |-> IF o = "O1" THEN 100 ELSE 120]
Durations == {0, 1}
Callers == {"A", "G"}

NextPull ==
    \/ \E m \in PullMinRequired : initialize("A", 500, 1, m)
    \/ \E c \in Callers, o \in Oracles : add_oracle_source(c, "XLM", o, PullWeight[o])
    \/ get_price("XLM")
    \/ \E c \in Callers, d \in Durations : emergency_set_price(c, "XLM", 777, d)
    \/ \E o \in Oracles : FeedReports(o, "XLM", PullPrice[o])
    \/ \E o \in Oracles : FeedFails(o, "XLM")
    \/ Tick(MaxTime)

SpecPull == Init /\ [][NextPull]_vars

\* SpecGuard: the security guardian, called once the oracle it is to pause
\* has been initialized, next to the oracle's admins pausing and resuming it.
Reasons == {"test emergency", "drill"}

NextGuard ==
    \/ init(<<"A", "B">>, 2, Config(5000, 1, 1, 1))
    \/ \E g \in SignerSets : pause("manual", g)
    \/ \E g \in SignerSets : resume(g)
    \/ \E c \in Callers, r \in Reasons : has_admins /\ emergency_pause_all(c, r)
    \/ Tick(MaxTimeGov)

SpecGuard == Init /\ [][NextGuard]_vars

\* SpecAdmin: the admin set under init, add_admin and remove_admin of any
\* address, with admin vectors of one to three entries, one of them naming
\* the same address twice.
AdmVecs == {<<>>, <<"A", "B">>, <<"A", "A">>, <<"A", "B", "C">>}
AdmMinSigs == 0 .. 3
AdmSigners == {{"A"}, {"A", "B"}, {"B", "C"}}

NextAdmin ==
    \/ \E v \in AdmVecs, m \in AdmMinSigs : init(v, m, Config(5000, 1, 1, 1))
    \/ \E x \in Addresses, g \in AdmSigners : add_admin(x, g)
    \/ \E x \in Addresses, g \in AdmSigners : remove_admin(x, g)
    \/ Tick(MaxTimeGov)

SpecAdmin == Init /\ [][NextAdmin]_vars

\* SpecConf: one asset fed by up to four sources at one price, S3 registered
\* with weight 0, records going stale after one second.
ConfWeight == [s \in SourceIds |->
                 CASE s = "S1" -> 60 [] s = "S2" -> 40 [] s = "S3" -> 0 [] OTHER -> 10]

NextConf ==
    \/ init(<<"A", "B">>, 2, Config(10000, 1, 1, 1))
    \/ \E s \in SourceIds : add_source(s, ConfWeight[s], Quorum)
    \/ \E s \in SourceIds : submit_price("XLM", 100, s)
    \/ Tick(MaxTime)

SpecConf == Init /\ [][NextConf]_vars

\* SpecBeat: the heartbeat check of one asset fed by one source, registered
\* with weight 0 or 60, under heartbeat intervals of 0 and 1 second, with
\* manual pauses and a price beyond the deviation bound.
BeatConfigs == {Config(5000, 1, 1, 0), Config(5000, 1, 1, 1)}
BeatPrices == {100, 151}

NextBeat ==
    \/ \E c \in BeatConfigs : init(<<"A", "B">>, 2, c)
    \/ \E c \in BeatConfigs : update_config(c, Quorum)
    \/ \E w \in AggWeights : add_source("S1", w, Quorum)
    \/ \E p \in BeatPrices : submit_price("XLM", p, "S1")
    \/ pause("manual", Quorum)
    \/ resume(Quorum)
    \/ Tick(MaxTimeBeat)

SpecBeat == Init /\ [][NextBeat]_vars

\* SpecFrame: two assets fed by S1 (weight 60, price 100) and S2 (weight
\* 40, price 151), records going stale after one second.
FrameSources == {"S1", "S2"}
FrameWeight == [s \in FrameSources |-> IF s = "S1" THEN 60 ELSE 40]
FramePrice == [s \in FrameSources |-> IF s = "S1" THEN 100 ELSE 151]
FramePrices == {FramePrice[s] : s \in FrameSources}

NextFrame ==
    \/ init(<<"A", "B">>, 2, Config(10000, 1, 1, 1))
    \/ \E s \in FrameSources : add_source(s, FrameWeight[s], Quorum)
    \/ \E a \in Assets, s \in FrameSources : submit_price(a, FramePrice[s], s)
    \/ Tick(MaxTime)

SpecFrame == Init /\ [][NextFrame]_vars

\* SpecReg: registry edits between submissions for one asset: S1 is
\* registered with weight 20 or 60 and removed again, S2 keeps weight 40;
\* each source reports its own price and records go stale after one second.
RegWeights == {20, 60}

NextReg ==
    \/ init(<<"A", "B">>, 2, Config(10000, 1, 1, 1))
    \/ \E w \in RegWeights : add_source("S1", w, Quorum)
    \/ add_source("S2", 40, Quorum)
    \/ remove_source("S1", Quorum)
    \/ \E s \in FrameSources : submit_price("XLM", FramePrice[s], s)
    \/ Tick(MaxTime)

SpecReg == Init /\ [][NextReg]_vars

\* SpecPullW: the oracle-aggregator with feeds of weight 0 and answers of
\* price 0: O1 is registered with weight 0 or 60 and answers 100, O2 is
\* registered with weight 40 and answers 0 or 120, and
\* min_oracles_required is 0 or 1.
PullWMinRequired == {0, 1}
PullWWeights == [o \in Oracles |-> IF o = "O1" THEN {0, 60} ELSE {40}]
PullWPrices == [o \in Oracles |-> IF o = "O1" THEN {100} ELSE {0, 120}]

NextPullW ==
    \/ \E m \in PullWMinRequired : initialize("A", 500, 1, m)
    \/ \E o \in Oracles : \E w \in PullWWeights[o] : add_oracle_source("A", "XLM", o, w)
    \/ get_price("XLM")
    \/ \E o \in Oracles : \E p \in PullWPrices[o] : FeedReports(o, "XLM", p)
    \/ Tick(MaxTime)

SpecPullW == Init /\ [][NextPullW]_vars

\* SpecMev: the trade store under trades of two traders in one asset over
\* blocks 0..MaxBlock, with the per-block counts incremented and read.
NextMev ==
    \/ \E t \in Traders, a \in MevAssets, b \in Blocks :
          add_trade_record(TradeRecord(t, a, b))
    \/ \E t \in Traders : increment_trades_count_current_block(t)
    \/ \E t \in Traders : get_trades_count_current_block(t)

SpecMev == Init /\ [][NextMev]_vars

\* ------------------------------------------------------------------ claims

Paused == cb /= None /\ cb.is_paused

\* C1: while the circuit breaker is Paused, every submit_price, for any
\* asset, source and price, fails with CircuitBreakerActive and changes
\* nothing in storage (so the breaker stays Paused for the next one); the
\* one breaker blocks every asset alike.
C1_PausedBlocksEverySubmit ==
    [][\A a \in Assets, p \in Prices, s \in SourceIds :
          (Paused /\ submit_price(a, p, s)) =>
              /\ ret'.res = "CircuitBreakerActive"
              /\ UNCHANGED storage]_vars

\* C1 witness: the breaker is Paused and a submission for USDC, an asset
\* that never had an aggregate, was rejected while XLM has one.
C1_Witness ==
    /\ Paused
    /\ ret.op = "submit_price" /\ ret.asset = "USDC"
    /\ ret.res = "CircuitBreakerActive"
    /\ aggregated["USDC"] = None /\ aggregated["XLM"] /= None

\* C2: after a submit_price that failed with PriceDeviationExceeded the
\* circuit breaker is Paused with reason "deviation".
C2_DeviationFailureLeavesPaused ==
    (ret.op = "submit_price" /\ ret.res = "PriceDeviationExceeded") =>
        (cb.is_paused /\ cb.reason = "deviation")

\* C9: the breaker goes from Paused to Active only in a step that is a
\* successful resume(); no other entry point and no passage of time does it.
C9_OnlyResumeReactivates ==
    [][(Paused /\ ~cb'.is_paused) =>
          (ret'.op = "resume" /\ ret'.res = "ok" /\ \E g \in SignerSets : resume(g))]_vars

\* C9 witness: the breaker was paused at an earlier ledger time, an
\* update_config has since succeeded, and the breaker is still Paused.
C9_Witness ==
    /\ Paused /\ cb.pause_timestamp < now
    /\ ret.op = "update_config" /\ ret.res = "ok" /\ ret.at = now

\* C10: pause, resume, update_config, add_source, remove_source, add_admin
\* and remove_admin invoked by signers short of the quorum fail and leave
\* breaker, config, source registry, admin set and every other stored
\* value unchanged.
C10_NoQuorumNoEffect ==
    [][\A g \in SignerSets :
          (/\ has_admins
           /\ ~require_multi_sig(g)
           /\ \/ pause("manual", g)
              \/ resume(g)
              \/ \E c \in Configs : update_config(c, g)
              \/ \E w \in Weights : add_source("S1", w, g)
              \/ remove_source("S1", g)
              \/ add_admin("C", g)
              \/ remove_admin("C", g)) =>
              /\ ret'.res = "GovernanceDenied"
              /\ UNCHANGED storage]_vars

\* C10 witness: a pause() signed by one admin of a two-signature quorum
\* was denied and the breaker is still Active.
C10_Witness ==
    /\ ret.op = "pause" /\ ret.res = "GovernanceDenied"
    /\ min_signatures = 2
    /\ ~cb.is_paused

\* The sources whose record of `asset` in the store `ps` is at most
\* cfg.max_staleness_seconds old at ledger time t.
FreshIn(ps, asset, t, cfg) ==
    {s \in SourceIds :
        /\ ps[asset][s] /= None
        /\ t - ps[asset][s].timestamp <= cfg.max_staleness_seconds}

\* sum(w_i) and sum(p_i * w_i) over the records of the sources S.
WeightOf(ps, asset, S) == SumOver(S, [s \in S |-> ps[asset][s].weight])
WeightedPriceOf(ps, asset, S) ==
    SumOver(S, [s \in S |-> ps[asset][s].price * ps[asset][s].weight])

\* The last invocation was a successful submit_price for `asset`.
SubmittedOk(asset) ==
    ret.op = "submit_price" /\ ret.res = "ok" /\ ret.asset = asset

\* C4 as stated: after every successful submit_price for an asset the
\* stored aggregate price is floor(sum(p_i * w_i) / sum(w_i)) over the
\* records of the asset that are not stale at the time of the call.
C4_Original ==
    \A a \in Assets :
        SubmittedOk(a) =>
            LET fresh == FreshIn(price_source, a, ret.at, config)
                w == WeightOf(price_source, a, fresh)
            IN /\ aggregated[a] /= None
               /\ w > 0
               /\ aggregated[a].price = WeightedPriceOf(price_source, a, fresh) \div w

\* C4 amended: a successful submit_price for an asset stores
\* floor(sum(p_i * w_i) / sum(w_i)) over the records not stale at that
\* moment when their total weight is positive, and leaves the asset's
\* aggregate as it was when their total weight is 0.
C4_WeightedAverageWhenWeightPositive ==
    [][\A a \in Assets, p \in AggPrices, s \in SourceIds :
          (ret'.res = "ok" /\ submit_price(a, p, s)) =>
              LET fresh == FreshIn(price_source', a, now, config)
                  w == WeightOf(price_source', a, fresh)
              IN IF w > 0
                 THEN /\ aggregated'[a] /= None
                      /\ aggregated'[a].price =
                             WeightedPriceOf(price_source', a, fresh) \div w
                 ELSE aggregated'[a] = aggregated[a]]_vars

\* C4 witness: S1 (weight 60) reported 100 and S2 (weight 40) reported 151,
\* both fresh; the aggregate is floor(12040 / 100) = 120.
C4_Witness ==
    /\ SubmittedOk("XLM")
    /\ FreshIn(price_source, "XLM", ret.at, config) = {"S1", "S2"}
    /\ price_source["XLM"]["S1"].price = 100 /\ price_source["XLM"]["S1"].weight = 60
    /\ price_source["XLM"]["S2"].price = 151 /\ price_source["XLM"]["S2"].weight = 40
    /\ aggregated["XLM"] /= None
    /\ aggregated["XLM"].price = 120

\* A submission the first four checks of submit_price accept, for an asset
\* with no aggregate and no record of another source.
FirstValidSubmission(a, p, s) ==
    /\ has_admins /\ ~cb.is_paused
    /\ s \in DOMAIN trusted
    /\ p > 0
    /\ aggregated[a] = None
    /\ \A o \in SourceIds \ {s} : price_source[a][o] = None

\* C5 as stated: such a submission creates an aggregate whose price is the
\* submitted price, whatever the registered weight in 0..100.
C5_Original ==
    [][\A a \in Assets, p \in AggPrices, s \in SourceIds :
          (FirstValidSubmission(a, p, s) /\ submit_price(a, p, s)) =>
              /\ ret'.res = "ok"
              /\ aggregated'[a] /= None
              /\ aggregated'[a].price = p]_vars

\* C5 amended: such a submission succeeds; with a registered weight in
\* 1..100 it creates an aggregate whose price is the submitted price, and
\* with weight 0 it creates no aggregate.
C5_FirstAggregateIsThePrice ==
    [][\A a \in Assets, p \in AggPrices, s \in SourceIds :
          (FirstValidSubmission(a, p, s) /\ submit_price(a, p, s)) =>
              /\ ret'.res = "ok"
              /\ IF trusted[s] > 0
                 THEN aggregated'[a] /= None /\ aggregated'[a].price = p
                 ELSE aggregated'[a] = None]_vars

\* C5 witness: the only record of XLM is the one just submitted with
\* weight 60, and the aggregate carries its price.
C5_Witness ==
    /\ SubmittedOk("XLM")
    /\ price_source["XLM"]["S2"] = None
    /\ price_source["XLM"]["S1"] /= None
    /\ price_source["XLM"]["S1"].weight = 60
    /\ price_source["XLM"]["S1"].timestamp = ret.at
    /\ aggregated["XLM"] /= None
    /\ aggregated["XLM"].source_count = 1
    /\ aggregated["XLM"].price = price_source["XLM"]["S1"].price

\* The last invocation was lastprice, at the current ledger time.
JustRead == ret.op = "lastprice" /\ ret.at = now

\* C6: lastprice(asset) returns the stored aggregate iff one exists, is at
\* most max_staleness_seconds old and has at least min_sources_required
\* sources under the current config; otherwise it returns None; it never
\* fails.
C6_LastpriceGating ==
    JustRead =>
        LET agg == aggregated[ret.asset]
        IN /\ ret.res = "ok"
           /\ ret.val = IF /\ agg /= None
                           /\ now - agg.timestamp <= config.max_staleness_seconds
                           /\ agg.source_count >= config.min_sources_required
                        THEN agg
                        ELSE None

\* C6 witness: an aggregate with enough sources that is one second older
\* than max_staleness_seconds was read as None, without error.
C6_Witness ==
    /\ JustRead /\ ret.res = "ok" /\ ret.val = None
    /\ aggregated[ret.asset] /= None
    /\ aggregated[ret.asset].source_count >= config.min_sources_required
    /\ now - aggregated[ret.asset].timestamp = config.max_staleness_seconds + 1

\* C7 as stated: a lastprice(asset) that follows a lastprice(asset) with
\* no invocation in between returns what the earlier one returned.
C7_Original ==
    [][\A a \in Assets :
          (ret.op = "lastprice" /\ ret.asset = a /\ lastprice(a)) =>
              ret'.val = ret.val]_vars

\* C7 amended: lastprice changes no stored state, and a lastprice(asset)
\* that follows a lastprice(asset) with no invocation in between and at
\* the same ledger time observes exactly what the earlier one did.
C7_ReadOnlyAndRepeatable ==
    [][\A a \in Assets :
          lastprice(a) =>
              /\ UNCHANGED storage
              /\ (ret.op = "lastprice" /\ ret.asset = a /\ ret.at = now) => ret' = ret]_vars

\* C7 witness: a read returned the aggregate, the ledger time then moved
\* past its staleness bound, and storage still holds that aggregate.
C7_Witness ==
    /\ ret.op = "lastprice" /\ ret.val /= None
    /\ ret.val = aggregated[ret.asset]
    /\ now - ret.val.timestamp > config.max_staleness_seconds

\* C8: the staleness test of aggregation is inclusive at the bound: when a
\* successful submit_price writes the aggregate, the records counted in
\* source_count and averaged are exactly those with now - timestamp <=
\* max_staleness_seconds, so a record exactly max_staleness_seconds old
\* contributes and one a second older does not.
C8_StalenessBoundInclusive ==
    \A a \in Assets :
        LET fresh == FreshIn(price_source, a, ret.at, config)
            w == WeightOf(price_source, a, fresh)
            wp == WeightedPriceOf(price_source, a, fresh)
        IN (SubmittedOk(a) /\ w > 0) =>
               /\ aggregated[a] /= None
               /\ aggregated[a].timestamp = ret.at
               /\ aggregated[a].source_count = Cardinality(fresh)
               /\ aggregated[a].price * w <= wp
               /\ wp < (aggregated[a].price + 1) * w

\* C8 witness: at the time of the submission the other source's record
\* was exactly max_staleness_seconds = 1 old and both sources were counted.
C8_Witness ==
    /\ SubmittedOk("XLM")
    /\ config.max_staleness_seconds = 1
    /\ \E s \in SourceIds :
          /\ price_source["XLM"][s] /= None
          /\ ret.at - price_source["XLM"][s].timestamp = 1
          /\ price_source["XLM"][s].weight > 0
    /\ aggregated["XLM"] /= None
    /\ aggregated["XLM"].timestamp = ret.at
    /\ aggregated["XLM"].source_count = 2

\* floor(|p - b| * 10000 / b) > m, computed exactly (b = 0 always exceeds).
ExactDeviationExceeds(p, b, m) ==
    \/ b = 0
    \/ LimbsGt(MulDiv10000(IF p > b THEN p - b ELSE b - p, b), m)

\* C3: with an aggregate of price b, a submit_price of p > 0 by a
\* registered source while the breaker is Active is rejected by the
\* deviation check (the trip) iff floor(|p - b| * 10000 / b) exceeds
\* max_price_deviation_bps.
C3_TripIffDeviationExceeds ==
    [][\A p \in DevPrices :
          (/\ has_admins /\ ~cb.is_paused
           /\ "S1" \in DOMAIN trusted
           /\ p > 0
           /\ aggregated["XLM"] /= None
           /\ submit_price("XLM", p, "S1")) =>
              (ret'.res = "PriceDeviationExceeded" <=>
                  ExactDeviationExceeds(p, aggregated["XLM"].price,
                                        config.max_price_deviation_bps))]_vars

\* C11 as stated: an authorized remove_admin of an admin fails with
\* InsufficientAdmins, the admin set unchanged, whenever removing one admin
\* would leave a count at or below min_signatures.
C11_Original ==
    [][\A x \in Addresses, g \in AdmSigners :
          (/\ has_admins /\ require_multi_sig(g)
           /\ x \in Range(admins)
           /\ Len(admins) - 1 <= min_signatures
           /\ remove_admin(x, g)) =>
              /\ ret'.res = "InsufficientAdmins"
              /\ admins' = admins]_vars

\* C11 amended: an authorized remove_admin fails with InsufficientAdmins,
\* storage unchanged, whenever the admin count is already at or below
\* min_signatures (the removal would drop it below min_signatures), and
\* is carried out when the count is above min_signatures.
C11_RemoveAdminKeepsQuorumCount ==
    [][\A x \in Addresses, g \in AdmSigners :
          (has_admins /\ require_multi_sig(g) /\ remove_admin(x, g)) =>
              IF Len(admins) <= min_signatures
              THEN ret'.res = "InsufficientAdmins" /\ UNCHANGED storage
              ELSE ret'.res = "ok" /\ admins' = storage_remove_admin(x)]_vars

\* C11 witness: with admins [A, B] and min_signatures 2, a remove_admin
\* signed by A and B was refused with InsufficientAdmins.
C11_Witness ==
    /\ ret.op = "remove_admin" /\ ret.res = "InsufficientAdmins"
    /\ admins = <<"A", "B">> /\ min_signatures = 2

\* C12: once init has succeeded, 1 <= min_signatures <= |AdminSet| in
\* every state, the admin set being the distinct addresses stored, so that
\* min_signatures distinct admins exist to sign.
C12_QuorumSatisfiable ==
    has_admins =>
        /\ 1 <= min_signatures
        /\ min_signatures <= Cardinality(Range(admins))

\* C13: init succeeds at most once.  On an initialized contract it fails
\* with AlreadyInitialized; on a fresh one it fails with InvalidInput for an
\* empty admin vector, min_signatures = 0, min_signatures > |admins| or
\* max_price_deviation_bps > 10000; a failing init leaves admins, quorum,
\* config and breaker as they were (unset on a fresh contract), and a
\* successful init stores its arguments and leaves the breaker Active.
C13_InitOnceAndValidated ==
    [][/\ ~has_admins => (min_signatures = 0 /\ config = None /\ cb = None)
       /\ \A v \in AdminVecs, m \in MinSigs, c \in Configs :
             init(v, m, c) =>
                 IF has_admins
                 THEN ret'.res = "AlreadyInitialized" /\ UNCHANGED storage
                 ELSE IF \/ v = <<>> \/ m = 0 \/ m > Len(v)
                         \/ c.max_price_deviation_bps > 10000
                 THEN ret'.res = "InvalidInput" /\ UNCHANGED storage
                 ELSE /\ ret'.res = "ok"
                      /\ admins' = v /\ min_signatures' = m /\ config' = c
                      /\ cb' /= None /\ ~cb'.is_paused]_vars

\* C13 witness: a second init was refused with AlreadyInitialized while
\* the breaker was Paused, and the breaker is still Paused.
C13_Witness ==
    /\ ret.op = "init" /\ ret.res = "AlreadyInitialized"
    /\ Paused

\* C14: the stored config always has max_price_deviation_bps <= 10000; an
\* update_config with a larger bound fails (with InvalidInput once the
\* quorum has signed) and leaves the stored config, and all storage,
\* unchanged.
C14_DeviationBoundCapped ==
    [][/\ config' /= None => config'.max_price_deviation_bps <= 10000
       /\ \A c \in Configs, g \in SignerSets :
             (c.max_price_deviation_bps > 10000 /\ update_config(c, g)) =>
                 /\ ret'.res = IF require_multi_sig(g)
                               THEN "InvalidInput" ELSE "GovernanceDenied"
                 /\ UNCHANGED storage]_vars

\* C14 witness: an update_config signed by the quorum was refused with
\* InvalidInput and the stored bound is still 5000.
C14_Witness ==
    /\ ret.op = "update_config" /\ ret.res = "InvalidInput"
    /\ config.max_price_deviation_bps = 5000

\* C15: a submit_price made while the breaker is Paused, or by an
\* unregistered source, or with a price <= 0, fails with
\* CircuitBreakerActive, UnauthorizedSource or InvalidPrice, publishes no
\* event and leaves per-source records, aggregates, breaker, registry and
\* config exactly as they were.
C15_RejectionsHaveNoEffect ==
    [][\A a \in Assets, p \in Prices, s \in SourceIds :
          ((Paused \/ s \notin DOMAIN trusted \/ p <= 0) /\ submit_price(a, p, s)) =>
              /\ ret'.res \in {"CircuitBreakerActive", "UnauthorizedSource", "InvalidPrice"}
              /\ ret'.ev = {}
              /\ UNCHANGED storage]_vars

\* C15 witness: a submission for an asset that has an aggregate and a
\* per-source record was refused with InvalidPrice.
C15_Witness ==
    /\ ret.op = "submit_price" /\ ret.res = "InvalidPrice"
    /\ aggregated[ret.asset] /= None
    /\ price_source[ret.asset]["S1"] /= None

\* What lastprice(a) is to return in the current state: the aggregate when
\* it is fresh and has enough sources, None otherwise.
Gated(a) ==
    LET agg == aggregated[a]
    IN IF /\ agg /= None
          /\ now - agg.timestamp <= config.max_staleness_seconds
          /\ agg.source_count >= config.min_sources_required
       THEN agg
       ELSE None

\* C16: while the breaker is Paused lastprice still answers, with the
\* stored aggregate under the usual staleness and min-sources gating; no
\* step that pauses, or that is taken while Paused, and no submission
\* rejected with PriceDeviationExceeded changes any asset's aggregate, so
\* the aggregate served is the one stored before the pause.
C16_ReadsSurvivePause ==
    [][/\ (Paused \/ Paused') => aggregated' = aggregated
       /\ ret'.res = "PriceDeviationExceeded" => aggregated' = aggregated
       /\ \A a \in Assets :
             (Paused /\ lastprice(a)) =>
                 (ret'.res = "ok" /\ ret'.val = Gated(a))]_vars

\* C16 witness: the breaker is Paused and a lastprice has just returned
\* the aggregate, which was written no later than the pause.
C16_Witness ==
    /\ Paused
    /\ ret.op = "lastprice" /\ ret.at = now /\ ret.val /= None
    /\ ret.val = aggregated[ret.asset]
    /\ ret.val.timestamp <= cb.pause_timestamp

\* The deviation check of submit_price would reject price p for asset a.
Deviates(a, p) ==
    /\ aggregated[a] /= None
    /\ LimbsGt(calculate_deviation_bps(p, aggregated[a].price),
               config.max_price_deviation_bps)

\* C20: submit_price reports the first failing check in the order
\* CircuitBreakerActive, UnauthorizedSource, InvalidPrice,
\* PriceDeviationExceeded, and succeeds when none fails; a submission by an
\* unregistered source or with a price <= 0 never ends in
\* PriceDeviationExceeded and never changes the breaker.
C20_FirstFailingCheckReported ==
    [][\A a \in Assets, p \in Prices, s \in SourceIds :
          submit_price(a, p, s) =>
              /\ ret'.res = IF Paused THEN "CircuitBreakerActive"
                            ELSE IF s \notin DOMAIN trusted THEN "UnauthorizedSource"
                            ELSE IF p <= 0 THEN "InvalidPrice"
                            ELSE IF Deviates(a, p) THEN "PriceDeviationExceeded"
                            ELSE "ok"
              /\ (s \notin DOMAIN trusted \/ p <= 0) =>
                     (ret'.res /= "PriceDeviationExceeded" /\ cb' = cb)]_vars

\* C20 witness: with the breaker Active, a price of 0 for an asset whose
\* aggregate it deviates from beyond the bound was refused with
\* InvalidPrice, the earlier of the two failing checks.
C20_Witness ==
    /\ ret.op = "submit_price" /\ ret.res = "InvalidPrice"
    /\ ~Paused
    /\ Deviates(ret.asset, 0)

\* C17: emergency_set_price(asset, price, duration) called by an emergency
\* guardian stores the price with set_at = now and expires_at = now +
\* duration and leaves the aggregate alone; called by anyone else it fails
\* and stores nothing; and a get_price made after expires_at neither
\* returns nor stores the emergency price.
C17_EmergencyPriceTimeBounded ==
    [][/\ \A c \in Callers, a \in Assets, d \in Durations :
             emergency_set_price(c, a, 777, d) =>
                 IF c \in EmergencyGuardians
                 THEN /\ ret'.res = "ok"
                      /\ EmergencyPrice'[a] =
                             [price |-> 777, set_at |-> now, expires_at |-> now + d,
                              set_by |-> c]
                      /\ AggregatedPrice' = AggregatedPrice
                 ELSE ret'.res /= "ok" /\ UNCHANGED oa_storage
       /\ \A a \in Assets :
             (/\ EmergencyPrice[a] /= None
              /\ now > EmergencyPrice[a].expires_at
              /\ get_price(a)) =>
                 /\ ret'.val = None \/ ret'.val.price /= EmergencyPrice[a].price
                 /\ \/ AggregatedPrice'[a] = None
                    \/ AggregatedPrice'[a].price /= EmergencyPrice[a].price]_vars

\* C17 witness: an emergency price set for one second has expired and a
\* get_price made after that has answered from the feeds.
C17_Witness ==
    /\ EmergencyPrice["XLM"] /= None
    /\ EmergencyPrice["XLM"].expires_at = EmergencyPrice["XLM"].set_at + 1
    /\ now > EmergencyPrice["XLM"].expires_at
    /\ ret.op = "get_price" /\ ret.res = "ok" /\ ret.at = now
    /\ ret.val.price \in {100, 108, 120}

\* The registered feeds of the asset that are active and whose answer is
\* at most heartbeat_timeout old.
ValidFeeds(a) ==
    {i \in DOMAIN OracleSources[a] :
        /\ OracleSources[a][i].is_active
        /\ feed[OracleSources[a][i].oracle][a] /= None
        /\ now - feed[OracleSources[a][i].oracle][a].timestamp <= instance.heartbeat_timeout}

\* C18 as stated: get_price fails with InsufficientValidPrices, storing
\* no aggregate, whenever fewer than min_oracles_required feeds are valid.
C18_Original ==
    [][\A a \in Assets :
          (/\ instance /= None
           /\ Cardinality(ValidFeeds(a)) < instance.min_oracles_required
           /\ get_price(a)) =>
              /\ ret'.res = "InsufficientValidPrices"
              /\ AggregatedPrice' = AggregatedPrice]_vars

\* C18 amended: with fewer than min_oracles_required valid feeds get_price
\* fails and stores nothing, with InsufficientOracleSources when fewer than
\* min_oracles_required feeds are registered for the asset and with
\* InsufficientValidPrices otherwise; so with min_oracles_required >= 2 a
\* successful get_price rests on at least two valid feeds.
C18_TooFewValidFeedsFails ==
    [][\A a \in Assets :
          (instance /= None /\ get_price(a)) =>
              LET min_required == instance.min_oracles_required
                  n == Cardinality(ValidFeeds(a))
              IN /\ n < min_required =>
                        /\ ret'.res = IF Len(OracleSources[a]) < min_required
                                      THEN "InsufficientOracleSources"
                                      ELSE "InsufficientValidPrices"
                        /\ UNCHANGED oa_storage
                 /\ (ret'.res = "ok" /\ min_required >= 2) => n >= 2]_vars

\* C18 witness: two feeds are registered and answer, one of them too long
\* ago, min_oracles_required is 2, and get_price has just failed with
\* InsufficientValidPrices.
C18_Witness ==
    /\ ret.op = "get_price" /\ ret.res = "InsufficientValidPrices" /\ ret.at = now
    /\ instance.min_oracles_required = 2
    /\ Len(OracleSources["XLM"]) = 2
    /\ \A o \in Oracles : feed[o]["XLM"] /= None
    /\ Cardinality(ValidFeeds("XLM")) = 1

\* The protocol contract k is in its paused state.
contract_paused(k) == IF k = "oracle" THEN Paused ELSE pool_paused

\* C19: an emergency_pause_all called by a guardian succeeds, leaves
\* every registered protocol contract (the oracle and the pool) paused and
\* records EmergencyPaused with the reason, the time and the caller; called
\* by anyone else it is refused and pauses nothing.
C19_EmergencyPauseReachesAll ==
    [][\A c \in Callers, r \in Reasons :
          emergency_pause_all(c, r) =>
              IF c \in Guardians
              THEN /\ ret'.res = "ok"
                   /\ \A k \in ProtocolContracts : contract_paused(k)'
                   /\ guardian_instance' =
                          [EmergencyPaused |-> TRUE, PauseReason |-> r,
                           PausedAt |-> now, PausedBy |-> c]
              ELSE /\ ret'.res /= "ok"
                   /\ UNCHANGED <<cb, pool_paused, guardian_instance>>]_vars

\* C21: a submission that passes the breaker, registry and price checks
\* and fails the deviation check is rejected with PriceDeviationExceeded
\* and not stored: every per-source record and every aggregate is what it
\* was before the call, so the rejected price enters no later aggregate.
C21_RejectedPriceNotStored ==
    [][\A a \in Assets, p \in Prices, s \in SourceIds :
          (/\ ~Paused /\ s \in DOMAIN trusted /\ p > 0
           /\ Deviates(a, p)
           /\ submit_price(a, p, s)) =>
              /\ ret'.res = "PriceDeviationExceeded"
              /\ price_source' = price_source
              /\ aggregated' = aggregated]_vars

\* C21 witness: S1's record and the aggregate of the asset both carry 100
\* after a submission by S1, the only registered source, of a price beyond
\* the bound (151) was rejected.
C21_Witness ==
    /\ ret.op = "submit_price" /\ ret.res = "PriceDeviationExceeded"
    /\ price_source[ret.asset]["S1"] /= None
    /\ price_source[ret.asset]["S1"].price = 100
    /\ aggregated[ret.asset].price = 100

\* C24 as stated: an authorized add_source with weight > 100 fails with
\* InvalidWeight and leaves the registry unchanged.
C24_Original ==
    [][\A w \in Weights, g \in SignerSets :
          (/\ has_admins /\ require_multi_sig(g)
           /\ w > 100
           /\ add_source("S1", w, g)) =>
              /\ ret'.res = "InvalidWeight"
              /\ trusted' = trusted]_vars

\* C24 amended: an authorized add_source with weight > 100 fails with
\* InvalidInput and leaves the registry unchanged, so every weight in the
\* registry and in every stored per-source record is within 0..100.
C24_WeightsCapped ==
    [][/\ \A w \in Weights, g \in SignerSets :
             (/\ has_admins /\ require_multi_sig(g)
              /\ w > 100
              /\ add_source("S1", w, g)) =>
                 /\ ret'.res = "InvalidInput"
                 /\ UNCHANGED storage
       /\ \A s \in DOMAIN trusted' : trusted'[s] \in 0 .. 100
       /\ \A a \in Assets, s \in SourceIds :
             price_source'[a][s] /= None => price_source'[a][s].weight \in 0 .. 100]_vars

\* C24 witness: an add_source of weight 101 signed by the quorum was
\* refused with InvalidInput while S1 stays registered with weight 60.
C24_Witness ==
    /\ ret.op = "add_source" /\ ret.res = "InvalidInput"
    /\ "S1" \in DOMAIN trusted /\ trusted["S1"] = 60

\* C23: a successful submit_price(asset, price, source_id) replaces the
\* record of (asset, source_id) by {source_id, price, now, the weight the
\* registry holds for the source} and adds no other record: the sources
\* listed for the asset are those listed before together with source_id,
\* and every other source's record is the one it was.
C23_SubmissionOverwritesRecord ==
    [][\A a \in Assets, p \in AggPrices, s \in SourceIds :
          (ret'.res = "ok" /\ submit_price(a, p, s)) =>
              /\ price_source'[a][s] =
                     [source_id |-> s, price |-> p, timestamp |-> now,
                      weight |-> trusted[s]]
              /\ get_all_price_sources(price_source', a) =
                     get_all_price_sources(price_source, a) \cup {s}
              /\ \A t \in SourceIds \ {s} :
                     price_source'[a][t] = price_source[a][t]]_vars

\* C23 witness: S1 is the only source that ever submitted; its earlier
\* record, from which the aggregate was computed, has been overwritten at
\* a later time by one carrying the weight 0 the registry now holds.
C23_Witness ==
    /\ SubmittedOk("XLM")
    /\ get_all_price_sources(price_source, "XLM") = {"S1"}
    /\ price_source["XLM"]["S1"].timestamp = ret.at
    /\ price_source["XLM"]["S1"].weight = 0
    /\ aggregated["XLM"] /= None
    /\ aggregated["XLM"].timestamp < ret.at

\* C29: every stored aggregate price is strictly positive, and the
\* aggregate a successful submit_price computes (the fresh records have a
\* positive total weight) lies between the lowest and the highest price
\* among the records that are fresh at that moment.
C29_AggregateWithinReportedRange ==
    [][/\ \A a \in Assets : aggregated'[a] /= None => aggregated'[a].price > 0
       /\ \A a \in Assets, p \in AggPrices, s \in SourceIds :
             (ret'.res = "ok" /\ submit_price(a, p, s)) =>
                 LET fresh == FreshIn(price_source', a, now, config)
                 IN WeightOf(price_source', a, fresh) > 0 =>
                        /\ aggregated'[a] /= None
                        /\ \E t \in fresh :
                               price_source'[a][t].price <= aggregated'[a].price
                        /\ \E t \in fresh :
                               aggregated'[a].price <= price_source'[a][t].price]_vars

\* C29 witness: S1 (weight 60) reported 199 and S2 (weight 40) reported
\* 100, both fresh; the aggregate floor(15940 / 100) = 159 lies strictly
\* between the two.
C29_Witness ==
    /\ SubmittedOk("XLM")
    /\ FreshIn(price_source, "XLM", ret.at, config) = {"S1", "S2"}
    /\ price_source["XLM"]["S1"].price = 199 /\ price_source["XLM"]["S1"].weight = 60
    /\ price_source["XLM"]["S2"].price = 100 /\ price_source["XLM"]["S2"].weight = 40
    /\ aggregated["XLM"] /= None
    /\ aggregated["XLM"].timestamp = ret.at
    /\ aggregated["XLM"].price = 159

\* C22: the confidence an aggregation stores is
\* min(100, floor(valid_count * 100 / total_count) + (10 if valid_count >= 3
\* else 0)), total_count being the number of records stored for the asset
\* and valid_count the number of them that are fresh at that moment, which
\* is also the stored source_count.
C22_ConfidenceFormula ==
    \A a \in Assets :
        LET fresh == FreshIn(price_source, a, ret.at, config)
            valid_count == Cardinality(fresh)
            total_count == Cardinality(get_all_price_sources(price_source, a))
            bonus == IF valid_count >= 3 THEN 10 ELSE 0
            expected == (valid_count * 100) \div total_count + bonus
        IN (SubmittedOk(a) /\ WeightOf(price_source, a, fresh) > 0) =>
               /\ aggregated[a] /= None
               /\ aggregated[a].source_count = valid_count
               /\ aggregated[a].confidence = IF expected > 100 THEN 100 ELSE expected

\* C22 witness: four sources have a record, three of them are fresh (one
\* with weight 0), and the aggregate carries source_count 3 and confidence
\* floor(300 / 4) + 10 = 85.
C22_Witness ==
    /\ SubmittedOk("XLM")
    /\ Cardinality(get_all_price_sources(price_source, "XLM")) = 4
    /\ Cardinality(FreshIn(price_source, "XLM", ret.at, config)) = 3
    /\ "S3" \in FreshIn(price_source, "XLM", ret.at, config)
    /\ aggregated["XLM"] /= None
    /\ aggregated["XLM"].timestamp = ret.at
    /\ aggregated["XLM"].source_count = 3
    /\ aggregated["XLM"].confidence = 85

\* C30: every stored aggregate has 1 <= source_count <= the number of
\* records stored for its asset and 0 <= confidence <= 100, and no step
\* removes an aggregate or lowers its timestamp.
C30_AggregateFieldsBounded ==
    [][\A a \in Assets :
          /\ aggregated'[a] /= None =>
                /\ 1 <= aggregated'[a].source_count
                /\ aggregated'[a].source_count <=
                       Cardinality(get_all_price_sources(price_source', a))
                /\ 0 <= aggregated'[a].confidence
                /\ aggregated'[a].confidence <= 100
          /\ aggregated[a] /= None =>
                /\ aggregated'[a] /= None
                /\ aggregated'[a].timestamp >= aggregated[a].timestamp]_vars

\* C30 witness: three records, all fresh, so that the bonus meets the cap
\* (100 + 10 stored as 100), in an aggregate rewritten at time 2.
C30_Witness ==
    /\ SubmittedOk("XLM")
    /\ Cardinality(get_all_price_sources(price_source, "XLM")) = 3
    /\ aggregated["XLM"] /= None
    /\ aggregated["XLM"].timestamp = 2
    /\ aggregated["XLM"].source_count = 3
    /\ aggregated["XLM"].confidence = 100

\* C26: a submit_price step publishes the heartbeat-missed signal iff it
\* succeeds, an aggregate of the asset existed before it and
\* now - aggregate.timestamp > 2 * heartbeat_interval; and a submission
\* that passes the breaker, registry, price and deviation checks succeeds,
\* stores its record and, when the fresh records carry weight, writes the
\* aggregate at the current time, whether or not the signal is published.
C26_HeartbeatSignalNeverBlocks ==
    [][\A a \in Assets, p \in BeatPrices, s \in SourceIds :
          submit_price(a, p, s) =>
              LET missed == /\ aggregated[a] /= None
                            /\ now - aggregated[a].timestamp >
                                   2 * config.heartbeat_interval
                  passes == /\ ~Paused /\ s \in DOMAIN trusted /\ p > 0
                            /\ ~Deviates(a, p)
              IN /\ ret'.res = "ok" <=> passes
                 /\ "heartbeat_missed" \in ret'.ev <=> (passes /\ missed)
                 /\ passes =>
                       /\ price_source'[a][s].price = p
                       /\ price_source'[a][s].timestamp = now
                       /\ trusted[s] > 0 =>
                             /\ aggregated'[a] /= None
                             /\ aggregated'[a].timestamp = now]_vars

\* C26 witness: with heartbeat_interval = 1 a submission arriving 3 seconds
\* after the aggregate of time 0 published the signal, was stored and
\* produced the aggregate of time 3.
C26_Witness ==
    /\ SubmittedOk("XLM")
    /\ config.heartbeat_interval = 1
    /\ "heartbeat_missed" \in ret.ev
    /\ ret.at = 3
    /\ price_source["XLM"]["S1"].timestamp = 3
    /\ aggregated["XLM"].timestamp = 3

\* C27: a successful submit_price(asset, price, source_id) changes, of the
\* contract's storage, only the record of (asset, source_id) and the
\* aggregate of asset: the records of the other sources for the asset, the
\* records and aggregates of the other assets, the registry, the config,
\* the admin set with its quorum and the breaker are what they were.
C27_SubmitFrame ==
    [][\A a \in Assets, p \in FramePrices, s \in SourceIds :
          (ret'.res = "ok" /\ submit_price(a, p, s)) =>
              /\ \A b \in Assets, t \in SourceIds :
                    <<b, t>> /= <<a, s>> => price_source'[b][t] = price_source[b][t]
              /\ \A b \in Assets \ {a} : aggregated'[b] = aggregated[b]
              /\ UNCHANGED <<trusted, config, admins, min_signatures, cb>>]_vars

\* C27 witness: a submission for XLM at time 2 rewrote the XLM aggregate
\* while USDC holds a record of the other source and an aggregate, both of
\* time 1 and still fresh, and XLM holds a record of the other source too.
C27_Witness ==
    /\ SubmittedOk("XLM")
    /\ ret.at = 2
    /\ aggregated["XLM"] /= None /\ aggregated["XLM"].timestamp = 2
    /\ aggregated["USDC"] /= None /\ aggregated["USDC"].timestamp = 1
    /\ \E s \in FrameSources, t \in FrameSources :
          /\ s /= t
          /\ price_source["XLM"][s] /= None /\ price_source["XLM"][s].timestamp = 2
          /\ price_source["XLM"][t] /= None /\ price_source["XLM"][t].timestamp < 2
          /\ price_source["USDC"][t] /= None /\ price_source["USDC"][t].timestamp = 1

\* C28: add_source and remove_source leave every per-source record and
\* every aggregate as they were; a submission by a source that is not in
\* the registry fails with UnauthorizedSource (CircuitBreakerActive while
\* Paused); and the aggregate a successful submission computes averages the
\* fresh records with the weights stored in them, whether or not their
\* sources are still registered and whatever weight the registry holds now.
C28_RegistryEditsKeepRecords ==
    [][/\ \A s \in SourceIds, w \in RegWeights \cup {40} :
             (add_source(s, w, Quorum) \/ remove_source(s, Quorum)) =>
                 /\ price_source' = price_source
                 /\ aggregated' = aggregated
       /\ \A a \in Assets, p \in FramePrices, s \in SourceIds :
             submit_price(a, p, s) =>
                 /\ (s \notin DOMAIN trusted /\ ~Paused) =>
                        /\ ret'.res = "UnauthorizedSource"
                        /\ UNCHANGED storage
                 /\ ret'.res = "ok" =>
                        LET fresh == FreshIn(price_source', a, now, config)
                            w == WeightOf(price_source', a, fresh)
                        IN w > 0 =>
                               /\ aggregated'[a].source_count = Cardinality(fresh)
                               /\ aggregated'[a].price =
                                      WeightedPriceOf(price_source', a, fresh) \div w]_vars

\* C28 witness: S1 reported 100 with weight 60 and was removed; its record
\* is still fresh when S2 (weight 40) reports 151, and the aggregate counts
\* both: floor((100 * 60 + 151 * 40) / 100) = 120.
C28_Witness ==
    /\ SubmittedOk("XLM")
    /\ "S1" \notin DOMAIN trusted
    /\ FreshIn(price_source, "XLM", ret.at, config) = {"S1", "S2"}
    /\ price_source["XLM"]["S1"].weight = 60
    /\ price_source["XLM"]["S2"].timestamp = ret.at
    /\ aggregated["XLM"].timestamp = ret.at
    /\ aggregated["XLM"].source_count = 2
    /\ aggregated["XLM"].price = 120

\* C25: whenever at least min_oracles_required feeds, and at least one,
\* are registered and valid, get_price returns ok with floor(sum(p_i * w_i) / sum(w_i)) over
\* the valid feeds and stores it, whether or not a feed deviates from the
\* aggregate by more than the threshold; it fails neither on the deviation
\* check nor on the weights.
C25_PullReadNeverFailsOnWeights ==
    [][\A a \in Assets :
          (/\ instance /= None
           /\ Len(OracleSources[a]) >= instance.min_oracles_required
           /\ Cardinality(ValidFeeds(a)) >= instance.min_oracles_required
           /\ ValidFeeds(a) /= {}
           /\ get_price(a)) =>
              LET valid == ValidFeeds(a)
                  price(i) == feed[OracleSources[a][i].oracle][a].price
                  w == SumOver(valid, [i \in valid |-> OracleSources[a][i].weight])
                  wp == SumOver(valid,
                                [i \in valid |-> price(i) * OracleSources[a][i].weight])
              IN /\ ret'.res = "ok"
                 /\ w > 0
                 /\ ret'.val.price = wp \div w
                 /\ AggregatedPrice'[a] /= None
                 /\ AggregatedPrice'[a].price = wp \div w]_vars

\* C31: when a trade record whose block is greater than the tracked current
\* block is added, the tracked block becomes that block and the per-block
\* trade count read for every trader is 0; and from then on a trader's
\* count is read as 0 until it is incremented, so a count read as positive
\* was incremented within the tracked block.
C31_CountsResetOnNewBlock ==
    [][\A t \in Traders, a \in MevAssets, b \in Blocks :
          (/\ b > (IF CurrentBlock = None THEN 0 ELSE CurrentBlock.some)
           /\ add_trade_record(TradeRecord(t, a, b))) =>
              /\ CurrentBlock' = Some(b)
              /\ \A x \in Traders : trades_count(TradesCurrentBlock', x) = 0]_vars

====
